---- MODULE Spec2Model ----
(***************************************************************************)
(* Model of the recipe endpoints of server.js: POST /get-recipe (request   *)
(* canonicalisation, fingerprint lookup, popularity increment, synthesis   *)
(* with one JSON repair attempt, insert) over the Firestore collection     *)
(* 'recipes'.                                                              *)
(*                                                                         *)
(* Strings are sequences of UTF-16 code units (naturals), so that sort(),  *)
(* join() and template literals are computed as JavaScript computes them.  *)
(* Every await of the handler is one atomic step: the external call takes  *)
(* effect, and the synchronous code up to the next await runs with it.     *)
(***************************************************************************)
EXTENDS Integers, Sequences, FiniteSets, TLC

(* ------------------------------ bounds --------------------------------- *)
\* number of POST /get-recipe requests of a run
NumReqs == 2
\* longest ingredient array drawn for the canonicaliser's inputs
MaxIng == 2

\* number of POST /recipes/:id/favourite requests of a run
NumFavs == 2
\* most structured-data blocks a fetched page holds
MaxBlocks == 2

\* The requests of a run, and request 0: an earlier request that, in some
\* runs, has already created a record before the run begins.
Earlier == 0
Reqs == 0..NumReqs
\* the favourite requests of a run
Favs == 1..NumFavs
\* document ids the store can assign: one per request is always enough
DocIds == 1..(NumReqs + 1)

(* --------------------------- strings ----------------------------------- *)
\* code units of the characters used
Comma == 44
Space == 32
Hash == 35
Pipe == 124

StrEmpty == << >>
\* "a", "b", "a,b" and the nine letters of "undefined"
StrA == <<97>>
StrB == <<98>>
StrAcommaB == <<97, Comma, 98>>
StrUndefined == <<117, 110, 100, 101, 102, 105, 110, 101, 100>>

\* JavaScript values of an optional body field: undefined, or a string
Undefined == [t |-> "undefined", s |-> StrEmpty]
JsStr(s) == [t |-> "string", s |-> s]

\* String(v), as a template literal `${v}` converts: undefined gives the
\* nine characters "undefined"
JsString(v) == IF v.t = "undefined" THEN StrUndefined ELSE v.s

\* s < t in the order Array.prototype.sort() uses without a comparator:
\* code unit by code unit, a proper prefix first
RECURSIVE StrLess(_, _)
StrLess(s, t) ==
    IF t = << >> THEN FALSE
    ELSE IF s = << >> THEN TRUE
    ELSE IF Head(s) # Head(t) THEN Head(s) < Head(t)
    ELSE StrLess(Tail(s), Tail(t))

\* insert x into the sorted sequence xs, after the elements not greater
RECURSIVE SortInsert(_, _)
SortInsert(x, xs) ==
    IF xs = << >> THEN <<x>>
    ELSE IF StrLess(x, Head(xs)) THEN <<x>> \o xs
    ELSE <<Head(xs)>> \o SortInsert(x, Tail(xs))

\* the array left in the order submitted
UnsortedCopy(xs) == xs

\* [...xs].sort(): a sorted copy
RECURSIVE Sort(_)
Sort(xs) ==
    IF xs = << >> THEN << >>
    ELSE SortInsert(xs[Len(xs)], Sort(SubSeq(xs, 1, Len(xs) - 1)))

\* xs.join(sep)
RECURSIVE Join(_, _)
Join(xs, sep) ==
    IF xs = << >> THEN << >>
    ELSE IF Len(xs) = 1 THEN xs[1]
    ELSE xs[1] \o sep \o Join(Tail(xs), sep)

(* --------------------------- canonicaliser ----------------------------- *)
\* server.js:173
SortedIngredients(b) == Join(Sort(b.ingredients), <<Comma>>)

\* server.js:174
CustomizationString(b) ==
    JsString(b.time) \o <<Pipe>> \o JsString(b.diet) \o <<Pipe>>
        \o JsString(b.allergies) \o <<Pipe>> \o JsString(b.cookingStyle)

\* server.js:175
RequestString(b) == SortedIngredients(b) \o <<Hash>> \o CustomizationString(b)

\* SHA-256 rendered in hex, modelled as an injective tagging of its input:
\* two digests are equal exactly when the digested strings are
Sha256Hex(s) == [sha256 |-> s]

\* server.js:176
UniqueKey(b) == Sha256Hex(RequestString(b))

NoKey == Sha256Hex(StrEmpty)

(* --------------------------- request bodies ---------------------------- *)
\* req.body of POST /get-recipe.  ingKind tells what `ingredients` is:
\* "undefined" (absent), "string" (present, not an array) or "array";
\* ingredients holds the array's elements (strings) when it is an array.
Body(kind, ings, t, d, a, c) ==
    [ingKind |-> kind, ingredients |-> ings,
     time |-> t, diet |-> d, allergies |-> a, cookingStyle |-> c]

NoBody == Body("undefined", << >>, Undefined, Undefined, Undefined, Undefined)

\* a validation without the length test
InvalidUnlessArray(b) == b.ingKind # "array"

\* server.js:168  !ingredients || !Array.isArray(ingredients) || length === 0
Invalid(b) == b.ingKind # "array" \/ Len(b.ingredients) = 0

\* bodies the requests of a run are drawn from
Bodies ==
    { Body("array", <<StrB, StrA>>, Undefined, Undefined, Undefined, Undefined),
      Body("array", <<StrA, StrB>>, Undefined, Undefined, Undefined, Undefined),
      Body("array", <<StrA, StrB>>, JsStr(StrA), Undefined, Undefined, Undefined),
      Body("array", << >>, Undefined, Undefined, Undefined, Undefined),
      Body("string", << >>, Undefined, Undefined, Undefined, Undefined),
      Body("undefined", << >>, Undefined, Undefined, Undefined, Undefined) }

(* --------------------------- generative service ------------------------ *)
\* The text of a reply: whether it is wrapped in ``` fences, what the text
\* inside is as JSON ("object", or "garbage" that does not parse),
\* and the two top-level values of an object ("absent" when the key is
\* missing).
Reply(f, j, r, n) == [fence |-> f, json |-> j, recipe |-> r, nutrition |-> n]

Replies ==
    { Reply(TRUE, "object", "R1", "N1"),
      Reply(FALSE, "object", "R2", "N2"),
      Reply(FALSE, "object", "absent", "N1"),
      Reply(FALSE, "object", "R1", "absent"),
      Reply(FALSE, "garbage", "absent", "absent") }

\* the text left as it came
KeepFences(t) == t

\* server.js:224, 236  text.replace(/```(json)?/g, '').trim()
StripFences(t) == [t EXCEPT !.fence = FALSE]

\* whether JSON.parse(text) returns (server.js:228, 237): a fence left in
\* the text, or garbage, throws SyntaxError
ParseOK(t) == ~t.fence /\ t.json # "garbage"

NoData == Reply(FALSE, "object", "absent", "absent")

(* --------------------------- store ------------------------------------- *)
\* server.js:245-254 (createdAt is left out)
RecipePayload(b, key, parsed) ==
    [ingredients |-> b.ingredients,
     recipe |-> parsed.recipe,
     nutrition |-> parsed.nutrition,
     customization |-> <<b.time, b.diet, b.allergies, b.cookingStyle>>,
     isFavourite |-> FALSE,
     generationCount |-> 1,
     uniqueKey |-> key]

NoRecord == RecipePayload(NoBody, NoKey, NoData)

\* a query on a field no document has: it matches nothing
LookupWrongField(st, key) == 0

\* ids of the documents where('uniqueKey', '==', key) matches
Matching(st, key) == {id \in DOMAIN st : st[id].uniqueKey = key}

\* .limit(1).get(): the first match in document-id order, or none (0)
Lookup(st, key) ==
    IF Matching(st, key) = {} THEN 0
    ELSE CHOOSE id \in Matching(st, key) : \A o \in Matching(st, key) : id <= o

\* an update that leaves the count as it is
NoIncrement(doc, n) == doc

\* an update that also writes the handler's default for isFavourite
IncrementResetFavourite(doc, n) ==
    [doc EXCEPT !.generationCount = @ + n, !.isFavourite = FALSE]

\* update({generationCount: FieldValue.increment(n)}): the store adds n to
\* the value it holds
FieldValueIncrement(doc, n) == [doc EXCEPT !.generationCount = @ + n]

(* --------------------------- state ------------------------------------- *)
VARIABLES
    store,        \* the 'recipes' collection: document id -> document data
    pc,           \* where each /get-recipe handler stands
    body,         \* req.body of each request
    uniqueKey,    \* the signature each handler computed
    existingDoc,  \* snapshot.docs[0] of each handler: its id (0: empty
                  \* snapshot) and the generationCount it was read with
    prompts,      \* the prompts each handler has sent to the service
    replies,      \* the reply texts each handler has received
    parsedData,   \* the object each handler parsed
    res,          \* the responses each handler has sent
    storeAtStart  \* the collection as it was when the latest request began
                  \* (kept by runs that handle one request at a time)

\* POST /recipes/:id/favourite
VARIABLES
    favPc,        \* where each favourite handler stands
    favReq,       \* req.params.id and req.body.isFavourite of each
    favRes        \* the responses each favourite handler has sent

\* POST /scrape-recipe (one request)
VARIABLES
    scrapePc,     \* where the scrape handler stands
    url,          \* req.body.url
    html,         \* response.data of the page fetch
    ingredients,  \* the handler's local list, filled by the scan
    gets,         \* page fetches issued (axios.get)
    posts,        \* extraction prompts sent to the service (axios.post)
    ingredientsText,  \* the text of the service's reply
    scrapeRes     \* the responses the scrape handler has sent

favVars == <<favPc, favReq, favRes>>
scrapeVars == <<scrapePc, url, html, ingredients, gets, posts,
                ingredientsText, scrapeRes>>
recipeVars == <<store, pc, body, uniqueKey, existingDoc, prompts, replies,
                parsedData, res, storeAtStart>>

vars == <<recipeVars, favVars, scrapeVars>>

NoDoc == [id |-> 0, generationCount |-> 0]

\* a response: the status, the error text of a failure, and for a 200 the
\* document id and data sent
Response(status, error, id, data) ==
    [status |-> status, error |-> error, id |-> id, data |-> data]

\* a favourite request not yet received, and the page not yet fetched
NoFavReq == [id |-> 0, isFavourite |-> [t |-> "undefined", b |-> FALSE]]
NoHtml == [t |-> "undefined", blocks |-> << >>, body |-> << >>]

\* no favourite request and no scrape request has been received
OthersIdle ==
    /\ favPc = [f \in Favs |-> "idle"]
    /\ favReq = [f \in Favs |-> NoFavReq]
    /\ favRes = [f \in Favs |-> << >>]
    /\ scrapePc = "idle"
    /\ url = Undefined
    /\ html = NoHtml
    /\ ingredients = << >>
    /\ gets = 0
    /\ posts = 0
    /\ ingredientsText = Undefined
    /\ scrapeRes = << >>

\* the server starts on an empty collection
InitEmpty ==
    /\ store = << >>
    /\ pc = [r \in Reqs |-> "idle"]
    /\ body = [r \in Reqs |-> NoBody]
    /\ uniqueKey = [r \in Reqs |-> NoKey]
    /\ existingDoc = [r \in Reqs |-> NoDoc]
    /\ prompts = [r \in Reqs |-> << >>]
    /\ replies = [r \in Reqs |-> << >>]
    /\ parsedData = [r \in Reqs |-> NoData]
    /\ res = [r \in Reqs |-> << >>]
    /\ storeAtStart = << >>
    /\ OthersIdle

\* the body and the reply of the earlier request
EarlierBody ==
    Body("array", <<StrB, StrA>>, Undefined, Undefined, Undefined, Undefined)
EarlierReply == Reply(TRUE, "object", "R1", "N1")
EarlierPayload ==
    RecipePayload(EarlierBody, UniqueKey(EarlierBody), StripFences(EarlierReply))

\* the earlier request has run alone on the empty collection: Start, Query
\* (empty snapshot, prompt posted), Generate (a reply that parses), Add (document 1)
InitAfterEarlier ==
    /\ store = (1 :> EarlierPayload)
    /\ pc = [r \in Reqs |-> IF r = Earlier THEN "done" ELSE "idle"]
    /\ body = [r \in Reqs |-> IF r = Earlier THEN EarlierBody ELSE NoBody]
    /\ uniqueKey = [r \in Reqs |->
            IF r = Earlier THEN UniqueKey(EarlierBody) ELSE NoKey]
    /\ existingDoc = [r \in Reqs |-> NoDoc]
    /\ prompts = [r \in Reqs |->
            IF r = Earlier THEN <<"synthesis">> ELSE << >>]
    /\ replies = [r \in Reqs |->
            IF r = Earlier THEN <<EarlierReply>> ELSE << >>]
    /\ parsedData = [r \in Reqs |->
            IF r = Earlier THEN StripFences(EarlierReply) ELSE NoData]
    /\ res = [r \in Reqs |->
            IF r = Earlier THEN <<Response(200, "", 1, EarlierPayload)>>
            ELSE << >>]
    /\ storeAtStart = << >>
    /\ OthersIdle

Init == InitEmpty \/ InitAfterEarlier

\* res.status(status).json(...) and the handler ends
Respond(r, status, error, id, data) ==
    /\ res' = [res EXCEPT ![r] = Append(@, Response(status, error, id, data))]
    /\ pc' = [pc EXCEPT ![r] = "done"]

\* a catch block that logs and sends nothing
CatchSilently(r, error) ==
    /\ pc' = [pc EXCEPT ![r] = "done"]
    /\ UNCHANGED res

\* server.js:261-264  the catch block: 500 with String(error)
Catch(r, error) == Respond(r, 500, error, 0, NoRecord)

(* --------------------------- POST /get-recipe -------------------------- *)
\* server.js:166-180  destructure, validate, compute the signature, issue
\* the query
StartWith(r, b) ==
    /\ pc[r] = "idle"
    /\ body' = [body EXCEPT ![r] = b]
    /\ IF Invalid(b)
       THEN /\ Respond(r, 400, "Ingredients are required and must be an array.",
                       0, NoRecord)
            /\ UNCHANGED uniqueKey
       ELSE /\ uniqueKey' = [uniqueKey EXCEPT ![r] = UniqueKey(b)]
            /\ pc' = [pc EXCEPT ![r] = "query"]
            /\ UNCHANGED res
    /\ UNCHANGED <<store, existingDoc, prompts, replies, parsedData>>
    /\ UNCHANGED <<favVars, scrapeVars>>

\* requests arrive in the order of their numbers
Arrived(r) == r # Earlier /\ (IF r = 1 THEN TRUE ELSE pc[r - 1] # "idle")

Start(r) ==
    /\ Arrived(r)
    /\ \E b \in Bodies : StartWith(r, b)
    /\ UNCHANGED storeAtStart

\* a hit branch that does not return: the handler falls through to generate
FallThrough(id) == "generate"

\* where the handler goes after the query (server.js:182): the hit branch
\* returns, the miss branch goes on to generate
AfterQuery(id) == IF id # 0 THEN "update" ELSE "generate"

\* server.js:180-185, 195-221  await query.get(); on a hit go on to the
\* update, on a miss build the prompt and post it
Query(r) ==
    /\ pc[r] = "query"
    /\ \/ /\ Catch(r, "FirestoreError")
          /\ UNCHANGED <<existingDoc, prompts>>
       \/ LET id == Lookup(store, uniqueKey[r]) IN
          /\ existingDoc' = [existingDoc EXCEPT ![r] =
                IF id = 0 THEN NoDoc
                ELSE [id |-> id, generationCount |-> store[id].generationCount]]
          /\ pc' = [pc EXCEPT ![r] = AfterQuery(id)]
          /\ prompts' = [prompts EXCEPT ![r] =
                IF AfterQuery(id) = "generate" THEN Append(@, "synthesis") ELSE @]
          /\ UNCHANGED res
    /\ UNCHANGED <<store, body, uniqueKey, replies, parsedData, storeAtStart>>
    /\ UNCHANGED <<favVars, scrapeVars>>

\* an update that writes the count read by the query plus one
UpdateReadModifyWrite(r) ==
    /\ pc[r] = "update"
    /\ \/ /\ Catch(r, "FirestoreError")
          /\ UNCHANGED store
       \/ /\ store' = [store EXCEPT ![existingDoc[r].id].generationCount =
                          existingDoc[r].generationCount + 1]
          /\ pc' = [pc EXCEPT ![r] = "reread"]
          /\ UNCHANGED res
    /\ UNCHANGED <<body, uniqueKey, existingDoc, prompts, replies, parsedData,
                   storeAtStart>>
    /\ UNCHANGED <<favVars, scrapeVars>>

\* server.js:187-191  await recipeRef.update({generationCount: increment(1)})
Update(r) ==
    /\ pc[r] = "update"
    /\ \/ /\ Catch(r, "FirestoreError")
          /\ UNCHANGED store
       \/ /\ store' = [store EXCEPT ![existingDoc[r].id] =
                          FieldValueIncrement(@, 1)]
          /\ pc' = [pc EXCEPT ![r] = "reread"]
          /\ UNCHANGED res
    /\ UNCHANGED <<body, uniqueKey, existingDoc, prompts, replies, parsedData,
                   storeAtStart>>
    /\ UNCHANGED <<favVars, scrapeVars>>

\* server.js:191-192  await recipeRef.get(), respond with the document
ReRead(r) ==
    /\ pc[r] = "reread"
    /\ \/ Catch(r, "FirestoreError")
       \/ Respond(r, 200, "", existingDoc[r].id, store[existingDoc[r].id])
    /\ UNCHANGED <<store, body, uniqueKey, existingDoc, prompts, replies,
                   parsedData, storeAtStart>>
    /\ UNCHANGED <<favVars, scrapeVars>>

\* a check that looks at the recipe alone
CheckRecipeOnly(obj) ==
    IF obj.recipe = "absent" THEN "Error: AI response was missing data." ELSE ""

\* server.js:241-243  destructure the parsed object and check both keys;
\* gives the error thrown, or "" when the object is complete
CheckParsed(obj) ==
    IF obj.recipe = "absent" \/ obj.nutrition = "absent"
    THEN "Error: AI response was missing data."
    ELSE ""

\* server.js:241-256  after a successful parse: throw, or go on to add
UseParsed(r, obj) ==
    /\ IF CheckParsed(obj) # ""
       THEN /\ Catch(r, CheckParsed(obj))
            /\ UNCHANGED parsedData
       ELSE /\ parsedData' = [parsedData EXCEPT ![r] = obj]
            /\ pc' = [pc EXCEPT ![r] = "add"]
            /\ UNCHANGED res
    /\ UNCHANGED prompts

\* server.js:229-233  the first parse threw: post the repair prompt
OnFirstParseError(r) ==
    /\ prompts' = [prompts EXCEPT ![r] = Append(@, "fixup")]
    /\ pc' = [pc EXCEPT ![r] = "fixup"]
    /\ UNCHANGED <<res, parsedData>>

\* a repair that is tried again when its reply does not parse
RetryRepair(r) ==
    /\ prompts' = [prompts EXCEPT ![r] = Append(@, "fixup")]
    /\ UNCHANGED <<pc, res, parsedData>>

\* server.js:237  the second parse threw: nothing catches it but the
\* handler's catch block
OnSecondParseError(r) ==
    /\ Catch(r, "SyntaxError")
    /\ UNCHANGED <<parsedData, prompts>>

\* server.js:221-233  the synthesis reply arrives, or the post fails (also:
\* the reply carries no candidate text, which throws likewise): clean, parse
Generate(r) ==
    /\ pc[r] = "generate"
    /\ \/ /\ Catch(r, "AxiosError")
          /\ UNCHANGED <<replies, parsedData, prompts>>
       \/ \E t \in Replies :
          /\ replies' = [replies EXCEPT ![r] = Append(@, t)]
          /\ IF ParseOK(StripFences(t))
             THEN UseParsed(r, StripFences(t))
             ELSE OnFirstParseError(r)
    /\ UNCHANGED <<store, body, uniqueKey, existingDoc, storeAtStart>>
    /\ UNCHANGED <<favVars, scrapeVars>>

\* server.js:233-239  the repair reply arrives (or the post fails): clean,
\* parse
Fixup(r) ==
    /\ pc[r] = "fixup"
    /\ \/ /\ Catch(r, "AxiosError")
          /\ UNCHANGED <<replies, parsedData, prompts>>
       \/ \E t \in Replies :
          /\ replies' = [replies EXCEPT ![r] = Append(@, t)]
          /\ IF ParseOK(StripFences(t))
             THEN UseParsed(r, StripFences(t))
             ELSE OnSecondParseError(r)
    /\ UNCHANGED <<store, body, uniqueKey, existingDoc, storeAtStart>>
    /\ UNCHANGED <<favVars, scrapeVars>>

\* server.js:245-259  await recipesCollection.add(recipePayload), respond
Add(r) ==
    /\ pc[r] = "add"
    /\ \/ /\ Catch(r, "FirestoreError")
          /\ UNCHANGED store
       \/ \E id \in DocIds \ DOMAIN store :
          LET recipePayload == RecipePayload(body[r], uniqueKey[r], parsedData[r])
          IN /\ store' = (id :> recipePayload) @@ store
             /\ Respond(r, 200, "", id, recipePayload)
    /\ UNCHANGED <<body, uniqueKey, existingDoc, prompts, replies, parsedData,
                   storeAtStart>>
    /\ UNCHANGED <<favVars, scrapeVars>>

Step(r) ==
    \/ Query(r)
    \/ Update(r)
    \/ ReRead(r)
    \/ Generate(r)
    \/ Fixup(r)
    \/ Add(r)

\* requests handled concurrently
Next == \E r \in Reqs : Start(r) \/ Step(r)

Spec == Init /\ [][Next]_vars

\* requests handled one at a time: a request begins when none is in flight
Quiet == \A r \in Reqs : pc[r] \in {"idle", "done"}

StartSeq(r) ==
    /\ Quiet
    /\ Arrived(r)
    /\ \E b \in Bodies : StartWith(r, b)
    /\ storeAtStart' = store

NextSeq == \E r \in Reqs : StartSeq(r) \/ Step(r)

SpecSeq == Init /\ [][NextSeq]_vars

(* --------------------------- the canonicaliser alone ------------------- *)
\* ingredient strings and constraint values the canonicaliser is run on
IngStrings == {StrA, StrB, StrAcommaB}
IngLists == UNION {[1..n -> IngStrings] : n \in 1..MaxIng}
ConstraintValues ==
    {Undefined, JsStr(StrUndefined), JsStr(StrEmpty), JsStr(<<Pipe>>)}

\* every ingredient list with two constraint tuples, and one ingredient
\* list with every constraint tuple
CanonBodies ==
    {Body("array", l, t, Undefined, Undefined, Undefined) :
        l \in IngLists, t \in {Undefined, JsStr(StrA)}}
    \cup
    {Body("array", <<StrA>>, t, d, a, c) :
        t \in ConstraintValues, d \in ConstraintValues,
        a \in ConstraintValues, c \in ConstraintValues}

CanonReqs == {1, 2}

\* two requests are received and canonicalised (server.js:166-176)
Canonicalize(r) ==
    /\ r \in CanonReqs
    /\ Arrived(r)
    /\ \E b \in CanonBodies : StartWith(r, b)
    /\ UNCHANGED storeAtStart

NextCanon == \E r \in Reqs : Canonicalize(r)

SpecCanon == InitEmpty /\ [][NextCanon]_vars

(* --------------------------- POST /recipes/:id/favourite --------------- *)
\* JavaScript values of req.body.isFavourite: true, false, absent, and a
\* string
JsBool(b) == [t |-> "boolean", b |-> b]
FavValues ==
    {JsBool(TRUE), JsBool(FALSE),
     [t |-> "undefined", b |-> FALSE], [t |-> "string", b |-> FALSE]}

\* a favourite response: the status and the message
FavResponse(status, message) == [status |-> status, message |-> message]

FavRespond(f, status, message) ==
    /\ favRes' = [favRes EXCEPT ![f] = Append(@, FavResponse(status, message))]
    /\ favPc' = [favPc EXCEPT ![f] = "done"]

\* a write that also puts the counter back to its initial value
SetFavouriteResetCount(doc, b) ==
    [doc EXCEPT !.isFavourite = b, !.generationCount = 1]

\* update({ isFavourite }): the store sets the one field
SetFavourite(doc, b) == [doc EXCEPT !.isFavourite = b]

\* server.js:301-310  read id and isFavourite, validate, issue the update.
\* The favourite requests of a run come from one client, one after the
\* other.
FavStart(f) ==
    /\ favPc[f] = "idle"
    /\ IF f = 1 THEN TRUE ELSE favPc[f - 1] = "done"
    /\ \E id \in DocIds, v \in FavValues :
          /\ favReq' = [favReq EXCEPT ![f] = [id |-> id, isFavourite |-> v]]
          /\ IF v.t # "boolean"
             THEN FavRespond(f, 400, "isFavourite must be a boolean.")
             ELSE /\ favPc' = [favPc EXCEPT ![f] = "update"]
                  /\ UNCHANGED favRes
    /\ UNCHANGED <<recipeVars, scrapeVars>>

\* server.js:310-316  the update returns: the document is missing or the
\* store fails (500), or the field is set and the handler answers 200
FavUpdate(f) ==
    /\ favPc[f] = "update"
    /\ \/ /\ FavRespond(f, 500, "Failed to update favourite status.")
          /\ UNCHANGED store
       \/ /\ favReq[f].id \in DOMAIN store
          /\ store' = [store EXCEPT ![favReq[f].id] =
                            SetFavourite(@, favReq[f].isFavourite.b)]
          /\ FavRespond(f, 200, "Favourite status updated.")
    /\ UNCHANGED <<pc, body, uniqueKey, existingDoc, prompts, replies,
                   parsedData, res, storeAtStart>>
    /\ UNCHANGED <<favReq, scrapeVars>>

\* one /get-recipe request, the first of the run
StartFirst(r) ==
    /\ \A q \in Reqs \ {Earlier} : pc[q] = "idle"
    /\ Start(r)

\* favourite requests beside one /get-recipe request
NextFav ==
    \/ \E r \in Reqs : StartFirst(r) \/ Step(r)
    \/ \E f \in Favs : FavStart(f) \/ FavUpdate(f)

SpecFav == Init /\ [][NextFav]_vars

(* --------------------------- POST /scrape-recipe ----------------------- *)
\* " a  b " and "  "
StrPadded == <<Space, 97, Space, Space, 98, Space>>
StrSpaces == <<Space, Space>>
\* "a, b" and ", ,"
StrAcommaSpaceB == <<97, Comma, Space, 98>>
StrCommas == <<Comma, Space, Comma>>

\* !v for a value that is undefined or a string
Falsy(v) == v.t = "undefined" \/ v.s = << >>

\* the length of the run of spaces that s begins with
RECURSIVE LeadingSpaces(_)
LeadingSpaces(s) ==
    IF s = << >> \/ Head(s) # Space THEN 0 ELSE 1 + LeadingSpaces(Tail(s))

\* s.replace(/\s\s+/g, ' '): every run of two or more spaces becomes one
RECURSIVE Collapse(_)
Collapse(s) ==
    IF s = << >> THEN << >>
    ELSE LET n == LeadingSpaces(s) IN
         IF n >= 2 THEN <<Space>> \o Collapse(SubSeq(s, n + 1, Len(s)))
         ELSE <<Head(s)>> \o Collapse(Tail(s))

\* s.trim()
RECURSIVE TrimEnd(_)
TrimEnd(s) ==
    IF s = << >> \/ s[Len(s)] # Space THEN s
    ELSE TrimEnd(SubSeq(s, 1, Len(s) - 1))
Trim(s) == TrimEnd(SubSeq(s, LeadingSpaces(s) + 1, Len(s)))

\* ing.replace(/\s\s+/g, ' ').trim()  (server.js:102, 109)
Clean(s) == Trim(Collapse(s))

\* s.split(','): the pieces between the commas, at least one
RECURSIVE Split(_)
Split(s) ==
    IF \A i \in DOMAIN s : s[i] # Comma THEN <<s>>
    ELSE LET i == CHOOSE k \in DOMAIN s :
                      s[k] = Comma /\ \A j \in 1..(k - 1) : s[j] # Comma
         IN <<SubSeq(s, 1, i - 1)>> \o Split(SubSeq(s, i + 1, Len(s)))

\* xs.map(f) for the two mappings used, and xs.filter(Boolean)
MapClean(xs) == [i \in DOMAIN xs |-> Clean(xs[i])]
MapTrim(xs) == [i \in DOMAIN xs |-> Trim(xs[i])]
NonEmpty(x) == x # << >>
FilterBoolean(xs) == SelectSeq(xs, NonEmpty)

\* server.js:127  split(',').map(item => item.trim()).filter(Boolean)
ExtractedIngredients(text) == FilterBoolean(MapTrim(Split(text)))

\* An item of a structured-data block: null, or an object with an '@type'
\* (a string, or an array of strings) and a recipeIngredient (absent, or an
\* array of strings).
Item(null, typeIsArray, types, riIsArray, list) ==
    [null |-> null, typeIsArray |-> typeIsArray, types |-> types,
     riIsArray |-> riIsArray, list |-> list]
Items ==
    { Item(FALSE, FALSE, <<"Recipe">>, TRUE, <<StrA>>),
      Item(FALSE, TRUE, <<"Thing", "Recipe">>, TRUE, <<StrPadded, StrSpaces>>),
      Item(FALSE, FALSE, <<"Recipe">>, TRUE, << >>),
      Item(FALSE, FALSE, <<"Recipe">>, FALSE, << >>),
      Item(FALSE, FALSE, <<"Article">>, TRUE, <<StrB>>),
      Item(TRUE, FALSE, << >>, FALSE, << >>) }

\* A <script type="application/ld+json"> block: text that does not parse,
\* one item, or an object whose '@graph' lists items.
GarbageBlock == [parses |-> FALSE, graph |-> << >>]
Blocks ==
    {GarbageBlock}
    \cup {[parses |-> TRUE, graph |-> <<i>>] : i \in Items}
    \cup {[parses |-> TRUE, graph |-> <<i, j>>] : i \in Items, j \in Items}

\* the pages a fetch can return: the blocks in document order and the text
\* of the body once scripts and styles are removed
Pages ==
    {[t |-> "string", blocks |-> b, body |-> x] :
        b \in UNION {[1..n -> Blocks] : n \in 0..MaxBlocks},
        x \in {StrSpaces, StrPadded}}

\* server.js:88  the type is 'Recipe', or an array that includes 'Recipe'
IsRecipe(item) ==
    IF item.typeIsArray THEN \E i \in DOMAIN item.types : item.types[i] = "Recipe"
    ELSE item.types = <<"Recipe">>

\* server.js:87-94  the loop over one block's items from item i on: it ends
\* at a null item (the TypeError is caught at 95), at the first Recipe item
\* whose recipeIngredient is an array (return false), or after the last item
RECURSIVE ForOfGraph(_, _)
ForOfGraph(graph, i) ==
    IF i > Len(graph) THEN [stop |-> FALSE, list |-> << >>]
    ELSE IF graph[i].null THEN [stop |-> FALSE, list |-> << >>]
    ELSE IF IsRecipe(graph[i]) /\ graph[i].riIsArray
         THEN [stop |-> TRUE, list |-> graph[i].list]
    ELSE ForOfGraph(graph, i + 1)

\* server.js:82-98  .each over the blocks from block i on: a block that does
\* not parse is passed over, and the scan stops when a callback returns false
RECURSIVE Each(_, _)
Each(blocks, i) ==
    IF i > Len(blocks) THEN << >>
    ELSE IF ~blocks[i].parses THEN Each(blocks, i + 1)
    ELSE LET found == ForOfGraph(blocks[i].graph, 1) IN
         IF found.stop THEN found.list ELSE Each(blocks, i + 1)

\* server.js:108  $('body').text().replace(/\s\s+/g, ' ').trim()
PageText(page) == Clean(page.body)

\* a handler that asks the service whatever the scan gave
AlwaysFallBack(list, pageText) ==
    IF pageText = << >> THEN "empty" ELSE "fallback"

\* server.js:100, 110  what the handler does after the scan
AfterScan(list, pageText) ==
    IF Len(list) > 0 THEN "structured"
    ELSE IF pageText = << >> THEN "empty"
    ELSE "fallback"

\* a scrape response: the status, the error text, the list of a 200
ScrapeResponse(status, error, list) ==
    [status |-> status, error |-> error, ingredients |-> list]

ScrapeRespond(status, error, list) ==
    /\ scrapeRes' = Append(scrapeRes, ScrapeResponse(status, error, list))
    /\ scrapePc' = "done"

\* server.js:130-133  the catch block
ScrapeCatch ==
    ScrapeRespond(500, "Failed to scrape recipe. The website may be blocking requests or the URL is invalid.", << >>)

\* server.js:66-73  read url, validate, issue the page fetch
ScrapeStart ==
    /\ scrapePc = "idle"
    /\ \E u \in {Undefined, JsStr(StrEmpty), JsStr(StrA)} :
          /\ url' = u
          /\ IF Falsy(u)
             THEN /\ ScrapeRespond(400, "URL is required.", << >>)
                  /\ UNCHANGED gets
             ELSE /\ scrapePc' = "get"
                  /\ gets' = gets + 1
                  /\ UNCHANGED scrapeRes
    /\ UNCHANGED <<html, ingredients, posts, ingredientsText>>
    /\ UNCHANGED <<recipeVars, favVars>>

\* server.js:73-120  the fetch of a page of the set pages returns: it fails
\* (500), or the page is scanned and the handler answers with the cleaned
\* list, answers 400 for a page without text, or posts the extraction prompt
ScrapeGetFrom(pages) ==
    /\ scrapePc = "get"
    /\ \/ /\ ScrapeCatch
          /\ UNCHANGED <<html, ingredients, posts>>
       \/ \E page \in pages :
            LET list == Each(page.blocks, 1)
                next == AfterScan(list, PageText(page)) IN
            /\ html' = page
            /\ ingredients' = list
            /\ CASE next = "structured" ->
                      /\ ScrapeRespond(200, "", MapClean(list))
                      /\ UNCHANGED posts
                 [] next = "empty" ->
                      /\ ScrapeRespond(400, "Could not extract any text from the provided URL.", << >>)
                      /\ UNCHANGED posts
                 [] next = "fallback" ->
                      /\ scrapePc' = "post"
                      /\ posts' = posts + 1
                      /\ UNCHANGED scrapeRes
    /\ UNCHANGED <<url, gets, ingredientsText>>
    /\ UNCHANGED <<recipeVars, favVars>>

ScrapeGet == ScrapeGetFrom(Pages)

\* the texts a reply of the service can carry
ReplyTexts ==
    {Undefined, JsStr(StrEmpty), JsStr(StrA), JsStr(StrAcommaSpaceB),
     JsStr(StrCommas), JsStr(StrSpaces)}

\* server.js:120-128  the post returns: it fails or the reply has no
\* candidate (500 from the catch), or the text is read, refused when falsy,
\* and otherwise split into the list of the 200
ScrapePost ==
    /\ scrapePc = "post"
    /\ \/ /\ ScrapeCatch
          /\ UNCHANGED ingredientsText
       \/ \E text \in ReplyTexts :
            /\ ingredientsText' = text
            /\ IF Falsy(text)
               THEN ScrapeRespond(500, "AI could not identify ingredients from the website content.", << >>)
               ELSE ScrapeRespond(200, "", ExtractedIngredients(text.s))
    /\ UNCHANGED <<url, html, ingredients, gets, posts>>
    /\ UNCHANGED <<recipeVars, favVars>>

\* one scrape request
NextScrape == ScrapeStart \/ ScrapeGet \/ ScrapePost

SpecScrape == InitEmpty /\ [][NextScrape]_vars

(* --------------------------- the three endpoints together -------------- *)
\* one favourite request, the first of the run
FavStartFirst(f) ==
    /\ \A g \in Favs : favPc[g] = "idle"
    /\ FavStart(f)

\* pages that take the scrape handler down each of its paths: a Recipe item
\* with a list, a block that does not parse on a page with text, and a page
\* with neither block nor text
ApiPages ==
    { [t |-> "string", body |-> StrPadded,
       blocks |-> <<[parses |-> TRUE,
                     graph |-> <<Item(FALSE, FALSE, <<"Recipe">>, TRUE, <<StrA>>)>>]>>],
      [t |-> "string", body |-> StrPadded, blocks |-> <<GarbageBlock>>],
      [t |-> "string", body |-> StrSpaces, blocks |-> << >>] }

ScrapeGetApi == ScrapeGetFrom(ApiPages)

\* one request to each endpoint, handled concurrently
NextApi ==
    \/ \E r \in Reqs : StartFirst(r) \/ Step(r)
    \/ \E f \in Favs : FavStartFirst(f) \/ FavUpdate(f)
    \/ ScrapeStart
    \/ ScrapeGetApi
    \/ ScrapePost

\* every external call a handler awaits returns or fails: the step that
\* follows an await is taken
CallsReturn ==
    /\ \A r \in Reqs : WF_vars(Step(r))
    /\ \A f \in Favs : WF_vars(FavUpdate(f))
    /\ WF_vars(ScrapeGetApi)
    /\ WF_vars(ScrapePost)

SpecApi == Init /\ [][NextApi]_vars /\ CallsReturn

(* --------------------------- vocabulary of the claims ------------------ *)
Count(xs, x) == Cardinality({i \in DOMAIN xs : xs[i] = x})

\* xs and ys hold the same elements the same number of times
IsPermutation(xs, ys) ==
    /\ Len(xs) = Len(ys)
    /\ \A i \in DOMAIN xs : Count(xs, xs[i]) = Count(ys, xs[i])

Constraints(b) == <<b.time, b.diet, b.allergies, b.cookingStyle>>

\* the number of the four constraint fields in which b1 and b2 differ
FieldsDiffering(b1, b2) ==
    Cardinality({i \in 1..4 : Constraints(b1)[i] # Constraints(b2)[i]})

\* the handler of r has computed its signature
Canonicalized(r) == pc[r] # "idle" /\ ~Invalid(body[r])

\* the response r sent (the first, when it has sent any)
Done(r) == pc[r] = "done"
Resp(r) == res[r][1]
Ok(r) == Done(r) /\ Resp(r).status = 200
Failed(r, error) == Done(r) /\ Resp(r).status = 500 /\ Resp(r).error = error

\* the query of r returned a document / the handler of r took the miss branch
Hit(r) == existingDoc[r].id # 0
Missed(r) == existingDoc[r].id = 0 /\ Len(prompts[r]) > 0

\* r is the request that began last
Latest(r) == pc[r] # "idle" /\ (IF r = NumReqs THEN TRUE ELSE pc[r + 1] = "idle")

\* r inserted document d
Creator(r, d) == Ok(r) /\ Missed(r) /\ Resp(r).id = d

FirstParseFailed(r) ==
    Len(replies[r]) >= 1 /\ ~ParseOK(StripFences(replies[r][1]))
SecondParseFailed(r) ==
    Len(replies[r]) >= 2 /\ ~ParseOK(StripFences(replies[r][2]))

(* --------------------------- C1 ---------------------------------------- *)
\* C1: when a request that got 200 is followed, with no request between or
\* overlapping, by a request with a permutation of its ingredients and the
\* same four constraints, and no store call of the second request fails,
\* the second gets 200 with the same record id, a generationCount one
\* higher, and the collection holds as many records as before it.
C1_SequentialRepeat ==
    \A r2 \in Reqs \ {Earlier} :
        LET r1 == r2 - 1 IN
        ( /\ Ok(r1) /\ Done(r2) /\ ~Invalid(body[r2])
          /\ IsPermutation(body[r1].ingredients, body[r2].ingredients)
          /\ Constraints(body[r1]) = Constraints(body[r2])
          /\ ~Failed(r2, "FirestoreError") )
        => /\ Ok(r2)
           /\ Resp(r2).id = Resp(r1).id
           /\ Resp(r2).data.generationCount = Resp(r1).data.generationCount + 1
           /\ Latest(r2) => DOMAIN store = DOMAIN storeAtStart

\* a repeat with the ingredients in another order has been answered
C1_Witness ==
    \E r2 \in Reqs \ {Earlier} :
        /\ Ok(r2 - 1) /\ Ok(r2) /\ Latest(r2)
        /\ body[r2 - 1].ingredients # body[r2].ingredients
        /\ IsPermutation(body[r2 - 1].ingredients, body[r2].ingredients)
        /\ Constraints(body[r2 - 1]) = Constraints(body[r2])
        /\ Resp(r2).id = Resp(r2 - 1).id

(* --------------------------- C2 ---------------------------------------- *)
\* the requests whose query returned document d, those of them whose
\* increment is committed, and those that ended in a store failure
Hitters(d) == {r \in Reqs : existingDoc[r].id = d}
Incremented(d) == {r \in Hitters(d) : pc[r] = "reread" \/ Ok(r)}
FailedHitters(d) == {r \in Hitters(d) : Failed(r, "FirestoreError")}

\* C2: no increment is lost: a record's generationCount is 1 plus the number
\* of increments committed on it, whatever the interleaving; when all k
\* requests that found the record have completed with 200 it is 1 + k.
\* (A request that ended in a store failure may or may not have committed
\* its increment before failing.)
C2_NoLostIncrement ==
    \A d \in DOMAIN store :
        /\ store[d].generationCount >= 1 + Cardinality(Incremented(d))
        /\ store[d].generationCount
              <= 1 + Cardinality(Incremented(d)) + Cardinality(FailedHitters(d))

\* two requests read the same record at the same count, and both have
\* incremented it
C2_Witness ==
    /\ existingDoc[1].id # 0
    /\ existingDoc[1] = existingDoc[2]
    /\ Ok(1) /\ Ok(2)
    /\ store[existingDoc[1].id].generationCount = existingDoc[1].generationCount + 2

(* --------------------------- C3 ---------------------------------------- *)
\* C3: when requests do not overlap, the collection never holds two records
\* with the same uniqueKey.
C3_OneRecordPerSignature ==
    \A d1 \in DOMAIN store, d2 \in DOMAIN store :
        store[d1].uniqueKey = store[d2].uniqueKey => d1 = d2

\* a failed synthesis, a successful synthesis and a cache hit have all
\* happened
C3_Witness ==
    /\ \E r \in Reqs : Failed(r, "SyntaxError")
    /\ \E r \in Reqs : Ok(r) /\ Missed(r)
    /\ \E r \in Reqs : Ok(r) /\ Hit(r)

(* --------------------------- C4 ---------------------------------------- *)
MissedFor(key) == {r \in Reqs : uniqueKey[r] = key /\ Missed(r)}

\* two records of one signature were inserted by two different requests that
\* both took the miss branch, and a signature never has more records than
\* requests that took the miss branch for it
C4_BoundedDuplication ==
    /\ \A d1 \in DOMAIN store, d2 \in DOMAIN store :
          (d1 # d2 /\ store[d1].uniqueKey = store[d2].uniqueKey)
          => \E c1 \in Reqs, c2 \in Reqs :
                c1 # c2 /\ Creator(c1, d1) /\ Creator(c2, d2)
    /\ \A d \in DOMAIN store :
          Cardinality(Matching(store, store[d].uniqueKey))
             <= Cardinality(MissedFor(store[d].uniqueKey))

\* a query answered while the collection holds a record of the signature
\* never leads to the miss branch; only a request on the miss branch
\* inserts, one record at a time; and a record, once inserted, stays and
\* keeps its signature (so a record found now was inserted after the query
\* of every request that missed on its signature)
C4_LookupAfterInsert ==
    /\ \A r \in Reqs :
        /\ (pc[r] = "query" /\ pc'[r] \notin {"query", "done"}
               /\ Matching(store, uniqueKey[r]) # {})
           => pc'[r] \notin {"generate", "fixup", "add"}
        /\ (pc[r] # pc'[r] /\ DOMAIN store' # DOMAIN store)
           => /\ pc[r] = "add" /\ Missed(r)
              /\ Cardinality(DOMAIN store') = Cardinality(DOMAIN store) + 1
    /\ \A d \in DOMAIN store :
        d \in DOMAIN store' /\ store'[d].uniqueKey = store[d].uniqueKey

\* C4: under concurrent requests for one signature, two records with one
\* uniqueKey arise only from two requests whose queries were both answered
\* before either insert; a request whose query is answered after an insert
\* for its signature never inserts; and the records of a signature never
\* outnumber the requests for it whose query returned empty.
C4_OnlyBoundedDuplication == []C4_BoundedDuplication /\ [][C4_LookupAfterInsert]_vars

\* two records share one uniqueKey
C4_Witness ==
    \E d1 \in DOMAIN store, d2 \in DOMAIN store :
        d1 # d2 /\ store[d1].uniqueKey = store[d2].uniqueKey

(* --------------------------- C8 ---------------------------------------- *)
\* C8: a handler sends no prompt before its miss, one synthesis prompt on
\* the miss, a repair prompt exactly when the first cleaned reply did not
\* parse, and never a third.
C8_TwoAttempts ==
    \A r \in Reqs :
        /\ prompts[r] \in {<< >>, <<"synthesis">>, <<"synthesis", "fixup">>}
        /\ pc[r] \in {"generate", "fixup", "add"} => prompts[r] # << >>
        /\ Len(prompts[r]) = 2 <=> FirstParseFailed(r)
        /\ Len(replies[r]) <= Len(prompts[r])

\* a repair reply that did not parse has ended a request
C8_Witness ==
    \E r \in Reqs : Done(r) /\ FirstParseFailed(r) /\ SecondParseFailed(r)

(* --------------------------- C9 ---------------------------------------- *)
BothKeys(t) == t.recipe # "absent" /\ t.nutrition # "absent"

\* the first / second reply of r is not JSON, fences aside
FirstMalformed(r) == Len(replies[r]) >= 1 /\ replies[r][1].json = "garbage"
SecondMalformed(r) == Len(replies[r]) >= 2 /\ replies[r][2].json = "garbage"

\* C9: on a miss whose first reply is malformed: if the repair reply parses
\* and has both keys, the request gets 200, and the record inserted and
\* returned carries the repaired object's recipe and nutrition (unless the
\* insert itself fails); if the repair reply is malformed too, the request
\* gets 500 and the collection is as it was when the request began.
C9_RepairOutcome ==
    \A r \in Reqs \ {Earlier} :
        (Done(r) /\ Latest(r) /\ FirstMalformed(r) /\ Len(replies[r]) = 2)
        => IF SecondMalformed(r)
           THEN Resp(r).status = 500 /\ store = storeAtStart
           ELSE BothKeys(replies[r][2])
                => \/ Failed(r, "FirestoreError") /\ store = storeAtStart
                   \/ /\ Ok(r)
                      /\ Resp(r).data.recipe = replies[r][2].recipe
                      /\ Resp(r).data.nutrition = replies[r][2].nutrition
                      /\ Resp(r).id \notin DOMAIN storeAtStart
                      /\ store = (Resp(r).id :> Resp(r).data) @@ storeAtStart

\* a fenced repair reply has been stored after a malformed first reply
C9_Witness ==
    \E r \in Reqs \ {Earlier} :
        /\ Ok(r) /\ Latest(r) /\ FirstMalformed(r) /\ Len(replies[r]) = 2
        /\ replies[r][2].fence
        /\ store[Resp(r).id].recipe = replies[r][2].recipe

\* both replies were malformed
C9_WitnessFatal ==
    \E r \in Reqs \ {Earlier} :
        Done(r) /\ Latest(r) /\ FirstMalformed(r) /\ SecondMalformed(r)

(* --------------------------- C10 --------------------------------------- *)
\* a handler whose query returned a record has sent no prompt, and its 200
\* carries that record
C10_HitState ==
    \A r \in Reqs :
        /\ Hit(r) => /\ prompts[r] = << >>
                     /\ pc[r] \in {"update", "reread", "done"}
                     /\ Ok(r) => Resp(r).id = existingDoc[r].id
        /\ prompts[r] # << >> => existingDoc[r].id = 0

\* a step of a handler whose query returned a record inserts nothing and
\* sends nothing to the service
C10_HitStep ==
    \A r \in Reqs :
        (pc[r] # pc'[r] /\ existingDoc'[r].id # 0)
        => DOMAIN store' = DOMAIN store /\ prompts' = prompts

\* C10: a request whose lookup finds a record calls the generative service
\* not at all and inserts nothing; the service is called for a request only
\* after its lookup returned empty.
C10_NoRedundantGeneration == []C10_HitState /\ [][C10_HitStep]_vars

\* a hit has been answered
C10_Witness == \E r \in Reqs \ {Earlier} : Ok(r) /\ Hit(r) /\ prompts[r] = << >>

(* --------------------------- C11 --------------------------------------- *)
Fetched == html.t # "undefined"
ScrapeDone == scrapePc = "done"
ScrapeResp == scrapeRes[1]
ScrapeOk == ScrapeDone /\ ScrapeResp.status = 200

\* C11: the scrape handler calls the service only when the scan gave an
\* empty list and the page has text; with a non-empty list it answers with
\* that list (cleaned) and calls nothing; with an empty list and no text it
\* answers 400 and calls nothing; it calls the service at most once.
C11_FallbackOnlyWhenNeeded ==
    /\ posts <= 1
    /\ posts = 1 => Fetched /\ ingredients = << >> /\ PageText(html) # << >>
    /\ Fetched =>
         /\ Len(ingredients) > 0
              => /\ posts = 0
                 /\ scrapeRes = <<ScrapeResponse(200, "", MapClean(ingredients))>>
         /\ (ingredients = << >> /\ PageText(html) = << >>)
              => /\ posts = 0
                 /\ ScrapeDone /\ Len(scrapeRes) = 1 /\ ScrapeResp.status = 400
         /\ (ingredients = << >> /\ PageText(html) # << >>)
              => posts = 1

\* a page with blocks but no list found has been answered from the service
C11_Witness ==
    /\ ScrapeOk /\ posts = 1
    /\ Len(html.blocks) = MaxBlocks
    /\ Len(ScrapeResp.ingredients) = 2

(* --------------------------- C12 --------------------------------------- *)
\* the items of a block that the scan can inspect: those before a null item
RECURSIVE Inspectable(_)
Inspectable(graph) ==
    IF graph = << >> \/ Head(graph).null THEN << >>
    ELSE <<Head(graph)>> \o Inspectable(Tail(graph))

\* the inspectable items of the parsed blocks, in document order
RECURSIVE DocumentOrder(_)
DocumentOrder(blocks) ==
    IF blocks = << >> THEN << >>
    ELSE (IF Head(blocks).parses THEN Inspectable(Head(blocks).graph) ELSE << >>)
         \o DocumentOrder(Tail(blocks))

HasList(item) == IsRecipe(item) /\ item.riIsArray /\ Len(item.list) > 0

\* the list of the first Recipe item that carries a non-empty list
FirstRecipeList(blocks) ==
    LET items == DocumentOrder(blocks) IN
    IF \A i \in DOMAIN items : ~HasList(items[i]) THEN << >>
    ELSE items[CHOOSE i \in DOMAIN items :
                   HasList(items[i]) /\ \A j \in 1..(i - 1) : ~HasList(items[j])].list

\* C12 as stated: the scan yields the list of the first item, in document
\* order over all blocks and graph entries, that is a Recipe with a
\* non-empty ingredient list; a Recipe item with a missing or empty list
\* does not stop the scan.
C12_FirstNonEmptyList ==
    Fetched => ingredients = FirstRecipeList(html.blocks)

(* --------------------------- C13 --------------------------------------- *)
\* C13 as stated: every 200 of the scrape handler carries a non-empty list
\* without an empty string; a reply with no usable token is answered with
\* an error status.
C13_NoEmptyList ==
    ScrapeOk =>
        /\ Len(ScrapeResp.ingredients) > 0
        /\ \A i \in DOMAIN ScrapeResp.ingredients :
              ScrapeResp.ingredients[i] # << >>

(* --------------------------- C18 --------------------------------------- *)
\* a block the scan passes over: it does not parse, or an item of it is null
PassedOver(block) ==
    ~block.parses \/ \E i \in DOMAIN block.graph : block.graph[i].null

\* a Recipe item with a non-empty list stands in a block after one that was
\* passed over
ListAfterPassedOver(blocks) ==
    \E i \in DOMAIN blocks, j \in DOMAIN blocks :
        /\ i < j
        /\ PassedOver(blocks[i])
        /\ blocks[j].parses
        /\ \E k \in DOMAIN Inspectable(blocks[j].graph) :
              HasList(blocks[j].graph[k])

\* C18 as stated: a block that fails to parse, or whose items cannot be
\* inspected, neither fails the request nor stops the scan, so a Recipe item
\* with a non-empty list in a later block is returned by the structured
\* path; every other failure of a fetch, store or service call is answered
\* with an error.
C18_OnlyParseErrorsSwallowed ==
    /\ (Fetched /\ ListAfterPassedOver(html.blocks))
         => /\ Len(ingredients) > 0
            /\ scrapeRes = <<ScrapeResponse(200, "", MapClean(ingredients))>>
    /\ ScrapeOk => Fetched /\ (posts = 1 => ~Falsy(ingredientsText))
    /\ \A r \in Reqs :
         Ok(r) =>
            IF Hit(r)
            THEN Resp(r).data.generationCount > existingDoc[r].generationCount
            ELSE /\ Resp(r).id \in DOMAIN store
                 /\ Len(replies[r]) >= 1

(* --------------------------- C14 --------------------------------------- *)
FavDone(f) == favPc[f] = "done"
FavOk(f) == FavDone(f) /\ favRes[f][1].status = 200
\* the favourite requests that have set the field of record d
Toggles(d) == {f \in Favs : FavOk(f) /\ favReq[f].id = d}
LastToggle(d) == CHOOSE f \in Toggles(d) : \A g \in Toggles(d) : g <= f

\* a favourite request answered 200 has set isFavourite of its record to
\* its boolean and changed nothing else; any other answer changes nothing
C14_FavStep ==
    \A f \in Favs :
        (favPc[f] # "done" /\ favPc'[f] = "done")
        => IF favRes'[f][1].status = 200
           THEN /\ favReq[f].id \in DOMAIN store
                /\ favReq[f].isFavourite.t = "boolean"
                /\ store' = [store EXCEPT ![favReq[f].id].isFavourite =
                                              favReq[f].isFavourite.b]
           ELSE store' = store

\* a record's isFavourite is the boolean of the last toggle answered 200
\* (false when there was none), and its generationCount is 1 plus the
\* increments committed on it
C14_TogglesAndCount ==
    \A d \in DOMAIN store :
        /\ store[d].isFavourite =
              (IF Toggles(d) = {} THEN FALSE
               ELSE favReq[LastToggle(d)].isFavourite.b)
        /\ store[d].generationCount >= 1 + Cardinality(Incremented(d))
        /\ store[d].generationCount
              <= 1 + Cardinality(Incremented(d)) + Cardinality(FailedHitters(d))

\* C14: the favourite toggle with a boolean sets isFavourite of its record
\* to that boolean and changes no other field and no other record; after
\* favourite(true) then favourite(false) the record has isFavourite false
\* and the generationCount its increments give, also when a cache hit on
\* the record is interleaved with the toggles.
C14_FavouriteFrame == []C14_TogglesAndCount /\ [][C14_FavStep]_vars

\* favourite(true) then favourite(false) on a record, and a cache hit on it
\* that re-read the record between the two
C14_Witness ==
    \E d \in DOMAIN store, f \in Favs, g \in Favs, r \in Reqs \ {Earlier} :
        /\ f < g /\ Toggles(d) = {f, g}
        /\ favReq[f].isFavourite.b /\ ~favReq[g].isFavourite.b
        /\ Ok(r) /\ Hit(r) /\ Resp(r).id = d
        /\ Resp(r).data.isFavourite
        /\ ~store[d].isFavourite
        /\ store[d].generationCount = 2

(* --------------------------- C17 --------------------------------------- *)
\* the increment of a cache hit changes the matched record's generationCount
\* and nothing else in the collection; the other steps of a handler that
\* found a record write nothing; no step removes a record or lowers a count
C17_HitStep ==
    /\ \A r \in Reqs :
        /\ (pc[r] = "update" /\ pc'[r] = "reread")
           => store' = [store EXCEPT
                    ![existingDoc[r].id].generationCount = @ + 1]
        /\ (Hit(r) /\ pc[r] # pc'[r] /\ pc'[r] # "reread")
           => store' = store
    /\ \A d \in DOMAIN store :
        /\ d \in DOMAIN store'
        /\ store'[d].generationCount >= store[d].generationCount

\* C17: a cache hit changes only the generationCount of the matched record;
\* its other fields and all other records are unchanged; no record is ever
\* deleted and no generationCount ever decreases.
C17_HitFrame == [][C17_HitStep]_vars

\* a cache hit on a record marked favourite has been answered
C17_Witness ==
    \E r \in Reqs \ {Earlier} :
        /\ Ok(r) /\ Hit(r)
        /\ Resp(r).data.isFavourite
        /\ Resp(r).data.generationCount = existingDoc[r].generationCount + 1

(* --------------------------- C15 --------------------------------------- *)
\* ingredients is missing, not an array, or an empty array
NoIngredients(b) == b.ingKind # "array" \/ b.ingredients = << >>

\* a request with an invalid input has been answered 400, and has issued no
\* query, no prompt and no page fetch
C15_Refused ==
    /\ \A r \in Reqs :
          (pc[r] # "idle" /\ NoIngredients(body[r]))
          => /\ Done(r) /\ Len(res[r]) = 1 /\ Resp(r).status = 400
             /\ existingDoc[r] = NoDoc
             /\ prompts[r] = << >> /\ replies[r] = << >>
    /\ (scrapePc # "idle" /\ Falsy(url))
          => /\ ScrapeDone /\ Len(scrapeRes) = 1 /\ ScrapeResp.status = 400
             /\ gets = 0 /\ posts = 0
    /\ \A f \in Favs :
          (favPc[f] # "idle" /\ favReq[f].isFavourite.t # "boolean")
          => FavDone(f) /\ Len(favRes[f]) = 1 /\ favRes[f][1].status = 400

\* the step that receives a request with an invalid input writes nothing
C15_RefusalStep ==
    /\ \A r \in Reqs :
          (pc[r] = "idle" /\ pc'[r] # "idle" /\ NoIngredients(body'[r]))
          => store' = store
    /\ \A f \in Favs :
          (favPc[f] = "idle" /\ favPc'[f] # "idle"
              /\ favReq'[f].isFavourite.t # "boolean")
          => store' = store

\* C15: a validation failure is answered 400 before any side effect:
\* /get-recipe without a non-empty ingredients array queries, writes and
\* prompts nothing; /scrape-recipe without url fetches nothing; the
\* favourite toggle without a boolean writes nothing.
C15_ValidationFirst == []C15_Refused /\ [][C15_RefusalStep]_vars

\* the three endpoints have each refused a request, with a record stored
C15_Witness ==
    /\ \E r \in Reqs : Done(r) /\ Resp(r).status = 400
                          /\ body[r].ingKind = "array"
    /\ ScrapeDone /\ ScrapeResp.status = 400 /\ url.t = "string" /\ gets = 0
    /\ \E f \in Favs : FavDone(f) /\ favRes[f][1].status = 400
                          /\ favReq[f].isFavourite.t = "string"
                          /\ favReq[f].id \in DOMAIN store

(* --------------------------- C20 --------------------------------------- *)
\* a handler has sent one response when it has ended and none before
C20_OneResponse ==
    /\ \A r \in Reqs : Len(res[r]) = (IF Done(r) THEN 1 ELSE 0)
    /\ Len(scrapeRes) = (IF ScrapeDone THEN 1 ELSE 0)

\* C20: when every external call returns or fails, every /get-recipe and
\* every /scrape-recipe request is answered, and answered exactly once.
C20_ExactlyOneResponse ==
    /\ []C20_OneResponse
    /\ \A r \in Reqs : (pc[r] # "idle") ~> Done(r)
    /\ (scrapePc # "idle") ~> ScrapeDone

\* a /get-recipe request has ended after its second prompt and the scrape
\* request after its prompt
C20_Witness ==
    /\ \E r \in Reqs \ {Earlier} : Done(r) /\ Len(prompts[r]) = 2
    /\ ScrapeDone /\ posts = 1

(* --------------------------- C16 --------------------------------------- *)
LastReply(r) == replies[r][Len(replies[r])]

\* a handler whose last reply parsed but lacks a key has answered 500
C16_IncompleteResponse ==
    \A r \in Reqs :
        ( /\ Len(replies[r]) >= 1
          /\ ParseOK(StripFences(LastReply(r)))
          /\ ~BothKeys(LastReply(r)) )
        => Failed(r, "Error: AI response was missing data.")

\* the collection grows only by the insert of a handler, by one record with
\* generationCount 1, isFavourite false, the handler's signature, the
\* ingredients as submitted and a recipe and a nutrition, which the handler
\* sends with its id in a 200; a step in which a reply arrives writes nothing
C16_Insert ==
    /\ DOMAIN store' # DOMAIN store
       => \E r \in Reqs : pc[r] = "add" /\ pc'[r] = "done"
    /\ \A r \in Reqs :
        /\ (pc[r] = "add" /\ pc'[r] = "done" /\ store' # store)
           => \E id \in DOMAIN store' \ DOMAIN store :
                /\ store' = (id :> store'[id]) @@ store
                /\ store'[id].generationCount = 1
                /\ store'[id].isFavourite = FALSE
                /\ store'[id].uniqueKey = UniqueKey(body[r])
                /\ store'[id].ingredients = body[r].ingredients
                /\ store'[id].recipe # "absent"
                /\ store'[id].nutrition # "absent"
                /\ res'[r] = <<Response(200, "", id, store'[id])>>
        /\ (pc[r] \in {"generate", "fixup"} /\ pc'[r] # pc[r])
           => store' = store

\* C16: every record /get-recipe creates has generationCount 1, isFavourite
\* false, the creating request's signature, its ingredients in submitted
\* order, and both recipe and nutrition; a parsed reply lacking a key gives
\* 500 and no record; the creating request's 200 is the stored record plus
\* its id.
C16_CreatedRecord == []C16_IncompleteResponse /\ [][C16_Insert]_vars

\* a request of the run has created a record, and one has been refused for
\* a missing key
C16_Witness ==
    /\ \E r \in Reqs \ {Earlier} :
          Creator(r, Resp(r).id) /\ store[Resp(r).id] = Resp(r).data
    /\ \E r \in Reqs : Failed(r, "Error: AI response was missing data.")

(* --------------------------- C19 --------------------------------------- *)
RECURSIVE SumCounts(_, _)
SumCounts(st, ds) ==
    IF ds = {} THEN 0
    ELSE LET d == CHOOSE x \in ds : TRUE
         IN st[d].generationCount + SumCounts(st, ds \ {d})

\* the sum of generationCount over the records of a signature
Popularity(st, key) == SumCounts(st, Matching(st, key))

Keys == {uniqueKey[r] : r \in Reqs} \ {NoKey}

\* the requests for key that were answered 200 or whose increment awaits
\* only its re-read
Counted(key) ==
    {r \in Reqs : uniqueKey[r] = key /\ (Ok(r) \/ pc[r] = "reread")}

\* C19 as stated: the popularity of a signature is the number of its
\* requests that committed a write, each request that succeeded counted
\* once and no failed request counted.
C19_FailedNotCounted ==
    \A key \in Keys : Popularity(store, key) = Cardinality(Counted(key))

\* the requests for key that found a record and ended in a store failure:
\* their increment may have committed before the re-read failed
MaybeCounted(key) ==
    {r \in Reqs : uniqueKey[r] = key /\ Hit(r) /\ Failed(r, "FirestoreError")}

C19_Bounds ==
    \A key \in Keys :
        /\ Popularity(store, key) >= Cardinality(Counted(key))
        /\ Popularity(store, key)
              <= Cardinality(Counted(key)) + Cardinality(MaybeCounted(key))

\* the step of r commits a store write: its increment, or its insert
Commits(r) ==
    \/ pc[r] = "update" /\ pc'[r] = "reread"
    \/ pc[r] = "add" /\ pc'[r] = "done" /\ res'[r][1].status = 200

\* a committed write of a request raises the popularity of its signature by
\* one, and no step changes a popularity otherwise
C19_Step ==
    \A key \in Keys :
        Popularity(store', key) = Popularity(store, key)
            + Cardinality({r \in Reqs : uniqueKey[r] = key /\ Commits(r)})

\* C19 as amended: under any interleaving the popularity of a signature is
\* the number of committed writes (inserts and increments) of its requests;
\* every request answered 200 is counted once; a failed request is counted
\* only if its increment committed before its re-read failed.
C19_ExactPopularity == []C19_Bounds /\ [][C19_Step]_vars

\* a signature with two counted requests and a third that answered 500
\* after its increment had committed
C19_Witness ==
    \E key \in Keys :
        /\ Cardinality(Counted(key)) >= 2
        /\ MaybeCounted(key) # {}
        /\ Popularity(store, key)
              = Cardinality(Counted(key)) + Cardinality(MaybeCounted(key))

(* --------------------------- C5 ---------------------------------------- *)
\* C5: two requests whose ingredient lists are permutations of each other
\* and whose four constraint values are the same get the same signature.
C5_PermutationSameSignature ==
    \A r1 \in CanonReqs, r2 \in CanonReqs :
        ( /\ Canonicalized(r1) /\ Canonicalized(r2)
          /\ IsPermutation(body[r1].ingredients, body[r2].ingredients)
          /\ Constraints(body[r1]) = Constraints(body[r2]) )
        => uniqueKey[r1] = uniqueKey[r2]

\* two canonicalised requests whose lists differ in order only
C5_Witness ==
    /\ Canonicalized(1) /\ Canonicalized(2)
    /\ body[1].ingredients # body[2].ingredients
    /\ IsPermutation(body[1].ingredients, body[2].ingredients)
    /\ Constraints(body[1]) = Constraints(body[2])
    /\ uniqueKey[1] = uniqueKey[2]

(* --------------------------- C6 ---------------------------------------- *)
\* C6: two requests with the same ingredients whose constraint tuples
\* differ in exactly one field (an absent field against any literal string
\* included) get different signatures.
C6_OneFieldChangesSignature ==
    \A r1 \in CanonReqs, r2 \in CanonReqs :
        ( /\ Canonicalized(r1) /\ Canonicalized(r2)
          /\ body[r1].ingredients = body[r2].ingredients
          /\ FieldsDiffering(body[r1], body[r2]) = 1 )
        => uniqueKey[r1] # uniqueKey[r2]

(* --------------------------- C7 ---------------------------------------- *)
\* C7: two requests whose sorted ingredient sequences differ, or whose
\* constraint tuples differ, never get the same canonical string (the
\* signature's pre-image).
C7_CanonicalStringInjective ==
    \A r1 \in CanonReqs, r2 \in CanonReqs :
        ( /\ Canonicalized(r1) /\ Canonicalized(r2)
          /\ \/ Sort(body[r1].ingredients) # Sort(body[r2].ingredients)
             \/ Constraints(body[r1]) # Constraints(body[r2]) )
        => RequestString(body[r1]) # RequestString(body[r2])

====
